---- MODULE Spec2Model ----
(***************************************************************************)
(* The OAuth broker of src/src/services/auth/auth_services.py as a state   *)
(* machine: the three in-memory stores, the four endpoints (register,      *)
(* authorize, callback, token), the JWT service of src/src/common/token.py *)
(* and the resource-call verifier of src/src/spotify_mcp/utils.            *)
(*                                                                         *)
(* The handlers are Python coroutines on one event loop: a handler runs    *)
(* without interruption between two awaits.  register, authorize and the   *)
(* callback never await, so each is one action.  issue_token awaits only   *)
(* the upstream POST, so each grant is two actions: the part before the    *)
(* await (which ends by sending the upstream request) and the part after   *)
(* the upstream response.                                                  *)
(***************************************************************************)
EXTENDS Integers, FiniteSets, Sequences, TLC

VARIABLES
    CLIENTS,         \* auth_services.CLIENTS: client_id -> client record
    AUTH_REQUESTS,   \* auth_services.AUTH_REQUESTS: auth_id -> request record
    SPOTIFY_TOKENS,  \* auth_services.SPOTIFY_TOKENS: token_id -> token record
    now,             \* time.time(), in seconds
    nAuth,           \* number of auth_ids minted so far
    nTok,            \* number of token_ids minted so far
    task,            \* the issue_token invocations: slot -> frame
    issued,          \* the internal tokens handed to clients so far
    last,            \* the handler step that just ran and its response, until sent
    consumed,        \* history: the auth_ids _code_grant has popped
    exchanges,       \* history: auth_id -> number of upstream code exchanges sent
    called_back,     \* history: the auth_ids a callback recorded a code for
    pkce_ok,         \* history: the auth_ids whose client verifier passed verify_pkce
    origin,          \* history: token_id -> what it was minted from
    rotated          \* history: the token_ids a successful refresh replaced

vars == <<CLIENTS, AUTH_REQUESTS, SPOTIFY_TOKENS, now, nAuth, nTok, task, issued,
          last, consumed, exchanges, called_back, pkce_ok, origin, rotated>>

stores == <<CLIENTS, AUTH_REQUESTS, SPOTIFY_TOKENS>>
history == <<consumed, exchanges, called_back, pkce_ok, origin, rotated>>

(***************************************************************************)
(* Bounds of the model.                                                    *)
(***************************************************************************)
MaxClients == 2      \* register calls that succeed
MaxAuth == 2         \* authorize calls that succeed
MaxTokens == 3       \* token_ids minted
NumTasks == 2        \* issue_token invocations in flight at once

\* The instants at which handlers run (seconds): the start, and one past both
\* the request TTL and the access-token lifetime.
Instants == {0, 4000}

Tasks == 1..NumTasks

(***************************************************************************)
(* Settings (src/src/core/config.py).                                      *)
(***************************************************************************)
SUPPORTED_SCOPES == {"user-read-private", "user-read-email"}
RESPONSE_TYPES_SUPPORTED == {"code"}
GRANT_TYPES_SUPPORTED == {"authorization_code", "refresh_token"}
CODE_CHALLENGE_METHODS_SUPPORTED == {"S256"}
AUTH_REQUEST_TTL == 300
JWT_ACCESS_TTL == 3600
JWT_REFRESH_TTL == 31536000
JWT_ISSUER == "http://127.0.0.1:8000"
JWT_SECRET == "JWT_SECRET"

(***************************************************************************)
(* Values.  A missing form field (None) and the empty string are both      *)
(* falsy in Python; the model writes both as "" (or 0 for an id).          *)
(***************************************************************************)
None == ""
NoId == 0
Absent == "<absent>"          \* a dict key that was never set
NoInt == 0 - 1                \* None where the value would be an int
NoToken == [sig |-> "none"]   \* no token presented / returned
NoRecord == [absent |-> TRUE] \* dict.get / dict.pop default

ClientVerifiers == {"v1", "v2"}
UpstreamCodes == {"uc1", "uc2"}

\* An id generator that hands out the same value every time.
token_urlsafe_Reuse(n) == 1

\* secrets.token_urlsafe: the value of the call after n earlier ones, never
\* one of theirs.
token_urlsafe(n) == n + 1

\* str(uri) of a pydantic HttpUrl: the host in lower case, "/" for an empty
\* path.
HttpUrlStr(uri) ==
    IF uri = "https://app.example" THEN "https://app.example/"
    ELSE IF uri = "https://APP.EXAMPLE/cb" THEN "https://app.example/cb"
    ELSE uri

\* Python truthiness of a str / None.
Falsy(x) == x = None

\* The keys of a store with one removed (del d[k], d.pop(k)).
Without(d, k) == [x \in DOMAIN d \ {k} |-> d[x]]
\* d[k] = v
With(d, k, v) == [x \in DOMAIN d \cup {k} |-> IF x = k THEN v ELSE d[x]]
\* d.get(k)
Get(d, k) == IF k \in DOMAIN d THEN d[k] ELSE NoRecord

(***************************************************************************)
(* PKCE primitive (src.common.security, not among the sources: modelled    *)
(* from spec section 4.1).  S256 is the challenge of a verifier; distinct  *)
(* verifiers have distinct challenges.                                     *)
(***************************************************************************)
S256(verifier) == "S256(" \o verifier \o ")"

verify_pkce(verifier, challenge) == S256(verifier) = challenge

\* The pair generate_pkce_pair() returns for the n-th authorization request:
\* a fresh random verifier and its challenge.
generate_pkce_pair(n) ==
    LET verifier == "bv" \o ToString(n) IN <<verifier, S256(verifier)>>

(***************************************************************************)
(* Responses.  An OAuthException becomes {"error": ...} with its           *)
(* status_code (400 unless given); any other exception that leaves a       *)
(* handler is answered by the catch-all handler with status 500.           *)
(***************************************************************************)
OAuthException(error) ==
    [ok |-> FALSE, kind |-> "OAuthException", error |-> error, status_code |-> 400]

Unhandled(exception) ==
    [ok |-> FALSE, kind |-> exception, error |-> "Internal server error",
     status_code |-> 500]

\* The body validation_exception_handler sends when the request model rejects
\* the request: {"status": False, "message": "Invalid request: ..."}.
RequestValidationError ==
    [ok |-> FALSE, kind |-> "RequestValidationError", error |-> "Invalid request",
     status_code |-> 400]

Ok == [ok |-> TRUE, kind |-> "response", error |-> None, status_code |-> 200]

RedirectResponse == [ok |-> TRUE, kind |-> "redirect", error |-> None, status_code |-> 307]

Range(seq) == {seq[i] : i \in DOMAIN seq}

\* The strings ' '.join(set(...)) can return: the members in any order.
Joins(set) ==
    {seq \in UNION {[1..n -> set] : n \in {Cardinality(set)}} : Range(seq) = set}

(***************************************************************************)
(* Client registration.  A scope string is written as the sequence of its  *)
(* whitespace-separated names.                                             *)
(***************************************************************************)
GoodGrants == <<"authorization_code", "refresh_token">>

RegPayload(uris, grants, responses, method, scope) ==
    [client_name |-> "app", redirect_uris |-> uris, grant_types |-> grants,
     response_types |-> responses, token_endpoint_auth_method |-> method,
     scope |-> scope]

RegPayloads ==
    { RegPayload(<<"https://app.example/cb">>, GoodGrants, <<"code">>, "none", <<>>),
      RegPayload(<<>>, GoodGrants, <<"code">>, "none", <<>>),
      RegPayload(<<"https://app.example/cb">>, <<"password">>, <<"code">>, "none", <<>>),
      RegPayload(<<"https://app.example/cb">>, GoodGrants, <<"token">>, "none", <<>>),
      RegPayload(<<"https://app.example/cb">>, GoodGrants, <<"code">>,
                 "client_secret_basic", <<>>),
      RegPayload(<<"https://app.example/cb">>, GoodGrants, <<"code">>, "none",
                 <<"user-read-private", "admin">>) }

\* Every combination of a passing and a failing value of the five fields
\* register_client checks.
RegisterInputs ==
    { RegPayload(uris, grants, responses, method, scope) :
        uris \in {<<>>, <<"https://app.example/cb">>},
        grants \in {GoodGrants, <<"password">>},
        responses \in {<<"code">>, <<"token">>},
        method \in {"none", "client_secret_basic"},
        scope \in {<<>>, <<"user-read-private">>, <<"user-read-private", "admin">>} }

\* The field validators of ClientRegistrationRequest: TRUE when the value is
\* accepted, FALSE when the validator raises ValueError.
validate_grant_types(value) == Range(value) \ GRANT_TYPES_SUPPORTED = {}

validate_response_types(value) == Range(value) \ RESPONSE_TYPES_SUPPORTED = {}

\* The checks of register_client with grant_types looked at before
\* redirect_uris.
register_error_GrantsFirst(payload) ==
    IF Range(payload.grant_types) \ GRANT_TYPES_SUPPORTED # {}
        THEN "unsupported_grant_type"
    ELSE IF payload.redirect_uris = <<>> THEN "invalid_client_metadata"
    ELSE IF Range(payload.response_types) \ RESPONSE_TYPES_SUPPORTED # {}
        THEN "unsupported_response_type"
    ELSE IF payload.token_endpoint_auth_method # "none" THEN "invalid_client_metadata"
    ELSE IF payload.scope # <<>> /\ Range(payload.scope) \ SUPPORTED_SCOPES # {}
        THEN "invalid_scope"
    ELSE None

\* The checks of register_client, in order: the error raised, or None.
register_error(payload) ==
    IF payload.redirect_uris = <<>> THEN "invalid_client_metadata"
    ELSE IF Range(payload.grant_types) \ GRANT_TYPES_SUPPORTED # {}
        THEN "unsupported_grant_type"
    ELSE IF Range(payload.response_types) \ RESPONSE_TYPES_SUPPORTED # {}
        THEN "unsupported_response_type"
    ELSE IF payload.token_endpoint_auth_method # "none" THEN "invalid_client_metadata"
    ELSE IF payload.scope # <<>> /\ Range(payload.scope) \ SUPPORTED_SCOPES # {}
        THEN "invalid_scope"
    ELSE None

\* The record register_client stores under a new client_id.
ClientRecord(client_id, payload) ==
    [client_id |-> client_id, client_id_issued_at |-> now,
     client_name |-> payload.client_name,
     redirect_uris |-> [i \in DOMAIN payload.redirect_uris |->
                           HttpUrlStr(payload.redirect_uris[i])],
     grant_types |-> payload.grant_types, response_types |-> payload.response_types,
     token_endpoint_auth_method |-> "none", scope |-> payload.scope]

\* The service function register_client.
register_client(payload) ==
    LET error == register_error(payload)
        client_id == token_urlsafe(Cardinality(DOMAIN CLIENTS))
    IN  /\ IF error # None
           THEN /\ last' = [op |-> "register", payload |-> payload,
                            response |-> OAuthException(error)]
                /\ UNCHANGED CLIENTS
           ELSE /\ client_id <= MaxClients
                /\ CLIENTS' = With(CLIENTS, client_id, ClientRecord(client_id, payload))
                /\ last' = [op |-> "register", payload |-> payload, response |-> Ok,
                            body |-> ClientRecord(client_id, payload)]
        /\ UNCHANGED <<AUTH_REQUESTS, SPOTIFY_TOKENS, now, nAuth, nTok, task, issued,
                       history>>

\* POST /register: the body is validated as a ClientRegistrationRequest, whose
\* validators run before the route calls register_client.
Register(payload) ==
    IF /\ validate_grant_types(payload.grant_types)
       /\ validate_response_types(payload.response_types)
    THEN register_client(payload)
    ELSE /\ last' = [op |-> "register", payload |-> payload,
                     response |-> RequestValidationError]
         /\ UNCHANGED <<stores, now, nAuth, nTok, task, issued, history>>

(***************************************************************************)
(* Authorization endpoint.                                                 *)
(***************************************************************************)
\* The checks of authorize with the redirect_uri check left out.
authorize_error_AnyRedirect(response_type, client_id, redirect_uri, scope, code_challenge, code_challenge_method) ==
    IF response_type \notin RESPONSE_TYPES_SUPPORTED THEN "unsupported_response_type"
    ELSE IF client_id \notin DOMAIN CLIENTS THEN "invalid_client"
    ELSE IF Falsy(code_challenge) THEN "invalid_request"
    ELSE IF code_challenge_method \notin CODE_CHALLENGE_METHODS_SUPPORTED
        THEN "invalid_request"
    ELSE IF scope = <<>> THEN "invalid_scope"
    ELSE IF Range(scope) \ SUPPORTED_SCOPES # {} THEN "invalid_scope"
    ELSE None

\* The checks of authorize, in order: the error raised, or None.
authorize_error(response_type, client_id, redirect_uri, scope, code_challenge, code_challenge_method) ==
    IF response_type \notin RESPONSE_TYPES_SUPPORTED THEN "unsupported_response_type"
    ELSE IF client_id \notin DOMAIN CLIENTS THEN "invalid_client"
    ELSE IF redirect_uri \notin Range(CLIENTS[client_id].redirect_uris)
        THEN "invalid_redirect_uri"
    ELSE IF Falsy(code_challenge) THEN "invalid_request"
    ELSE IF code_challenge_method \notin CODE_CHALLENGE_METHODS_SUPPORTED
        THEN "invalid_request"
    ELSE IF scope = <<>> THEN "invalid_scope"
    ELSE IF Range(scope) \ SUPPORTED_SCOPES # {} THEN "invalid_scope"
    ELSE None

\* The entry authorize stores, the broker's verifier included.
AuthRequest(client_id, redirect_uri, state, code_challenge, scope_str, code_verifier) ==
    [client_id |-> client_id, redirect_uri |-> redirect_uri, original_state |-> state,
     original_code_challenge |-> code_challenge, original_scope |-> scope_str,
     expires_at |-> now + AUTH_REQUEST_TTL, code_verifier |-> code_verifier,
     code |-> Absent]

Authorize(response_type, client_id, redirect_uri, scope, state, code_challenge, code_challenge_method) ==
    LET error == authorize_error(response_type, client_id, redirect_uri, scope,
                                 code_challenge, code_challenge_method)
        auth_id == token_urlsafe(nAuth)
        pair == generate_pkce_pair(auth_id)
    IN  /\ IF error # None
           THEN /\ last' = [op |-> "authorize", response |-> OAuthException(error),
                            request |-> [response_type |-> response_type,
                                         client_id |-> client_id,
                                         redirect_uri |-> redirect_uri, scope |-> scope,
                                         state |-> state,
                                         code_challenge |-> code_challenge,
                                         code_challenge_method |-> code_challenge_method]]
                /\ UNCHANGED <<AUTH_REQUESTS, nAuth>>
           ELSE /\ nAuth < MaxAuth
                /\ \E requested_scopes_str \in Joins(Range(scope)) :
                     /\ AUTH_REQUESTS' = With(AUTH_REQUESTS, auth_id,
                            AuthRequest(client_id, redirect_uri, state, code_challenge,
                                        requested_scopes_str, pair[1]))
                     /\ last' = [op |-> "authorize", response |-> RedirectResponse,
                                 request |-> [response_type |-> response_type,
                                              client_id |-> client_id,
                                              redirect_uri |-> redirect_uri,
                                              scope |-> scope, state |-> state,
                                              code_challenge |-> code_challenge,
                                              code_challenge_method |-> code_challenge_method],
                                 url |-> "SPOTIFY_AUTH_URL",
                                 params |-> [client_id |-> "SPOTIFY_CLIENT_ID",
                                             response_type |-> "code",
                                             redirect_uri |-> "SPOTIFY_REDIRECT_URI",
                                             scope |-> requested_scopes_str,
                                             state |-> auth_id,
                                             code_challenge |-> pair[2],
                                             code_challenge_method |-> code_challenge_method]]
                /\ nAuth' = nAuth + 1
        /\ UNCHANGED <<CLIENTS, SPOTIFY_TOKENS, now, nTok, task, issued, history>>

(***************************************************************************)
(* Spotify callback.                                                       *)
(***************************************************************************)
\* Redirect parameters that carry the state key whatever original_state is.
CallbackParams_AlwaysState(state, original_state) ==
    [code |-> state, state |-> original_state]

\* The query parameters of the redirect back to the client.
CallbackParams(state, original_state) ==
    IF Falsy(original_state) THEN [code |-> state]
    ELSE [code |-> state, state |-> original_state]

\* A callback that never finds a request expired.
CallbackExpired_Never(auth) == FALSE

\* Whether the callback finds the request past its expires_at.
CallbackExpired(auth) == now > auth.expires_at

Callback(code, state) ==
    LET auth == Get(AUTH_REQUESTS, state) IN
    /\ IF auth = NoRecord
       THEN /\ last' = [op |-> "callback", code |-> code, state |-> state,
                        response |-> OAuthException("invalid_request")]
            /\ UNCHANGED <<AUTH_REQUESTS, called_back>>
       ELSE IF CallbackExpired(auth)
       THEN /\ AUTH_REQUESTS' = Without(AUTH_REQUESTS, state)
            /\ last' = [op |-> "callback", code |-> code, state |-> state,
                        response |-> OAuthException("invalid_request")]
            /\ UNCHANGED called_back
       ELSE /\ AUTH_REQUESTS' = [AUTH_REQUESTS EXCEPT ![state].code = code]
            /\ called_back' = called_back \cup {state}
            /\ last' = [op |-> "callback", code |-> code, state |-> state,
                        response |-> RedirectResponse, url |-> auth.redirect_uri,
                        params |-> CallbackParams(state, auth.original_state)]
    /\ UNCHANGED <<CLIENTS, SPOTIFY_TOKENS, now, nAuth, nTok, task, issued, consumed,
                   exchanges, pkce_ok, origin, rotated>>

\* Time passes.
Tick == /\ \E t \in Instants : t > now /\ now' = t
        /\ UNCHANGED <<stores, nAuth, nTok, task, issued, last, history>>

(***************************************************************************)
(* JWT service (src/src/common/token.py).  A token is its claim set and    *)
(* the key its signature was made with; only the broker holds JWT_SECRET.  *)
(***************************************************************************)
encode_token(token_id, token_type, ttl_seconds) ==
    [claims |-> [token_id |-> token_id, iss |-> JWT_ISSUER, iat |-> now,
                 exp |-> now + ttl_seconds, typ |-> token_type],
     sig |-> JWT_SECRET]

\* A decoder that does not look at the token type.
decode_token_AnyType(token, expected_type) ==
    IF token.sig # JWT_SECRET THEN [ok |-> FALSE, exception |-> "InvalidTokenError"]
    ELSE IF token.claims.exp <= now
        THEN [ok |-> FALSE, exception |-> "ExpiredSignatureError"]
    ELSE [ok |-> TRUE, claims |-> token.claims]

\* jwt.decode and the type check: the claims, or the exception raised.
decode_token(token, expected_type) ==
    IF token.sig # JWT_SECRET THEN [ok |-> FALSE, exception |-> "InvalidTokenError"]
    ELSE IF token.claims.exp <= now
        THEN [ok |-> FALSE, exception |-> "ExpiredSignatureError"]
    ELSE IF token.claims.iss # JWT_ISSUER
        THEN [ok |-> FALSE, exception |-> "InvalidTokenError"]
    ELSE IF token.claims.typ # expected_type
        THEN [ok |-> FALSE, exception |-> "ValueError"]
    ELSE [ok |-> TRUE, claims |-> token.claims]

generate_access_token(token_id, expires_in) ==
    encode_token(token_id, "access",
                 IF expires_in # NoInt THEN expires_in ELSE JWT_ACCESS_TTL)

generate_refresh_token(token_id) == encode_token(token_id, "refresh", JWT_REFRESH_TTL)

\* Each except clause re-raises as AppException (401).
verify_access_token(token) ==
    LET d == decode_token(token, "access") IN
    IF d.ok THEN d ELSE [ok |-> FALSE, exception |-> "AppException"]

verify_refresh_token(token) ==
    LET d == decode_token(token, "refresh") IN
    IF d.ok THEN d ELSE [ok |-> FALSE, exception |-> "AppException"]

\* What a party without JWT_SECRET can make of a token it holds: the same
\* token_id under the other type and a later expiry, signed with its own key.
Forge(token) ==
    [claims |-> [token.claims EXCEPT
                    !.typ = IF token.claims.typ = "access" THEN "refresh" ELSE "access",
                    !.exp = now + JWT_REFRESH_TTL],
     sig |-> "attacker"]

\* The tokens a caller can present.
Presentable == issued \cup {Forge(t) : t \in issued}

(***************************************************************************)
(* Token endpoint.                                                         *)
(***************************************************************************)
Idle == [pc |-> "idle"]

Pending == [ok |-> FALSE, kind |-> "pending", error |-> None, status_code |-> 0]

CodeRequest(client_id, code, redirect_uri, code_verifier) ==
    [grant_type |-> "authorization_code", client_id |-> client_id, code |-> code,
     redirect_uri |-> redirect_uri, code_verifier |-> code_verifier,
     refresh_token |-> NoToken]

RefreshRequest(client_id, refresh_token) ==
    [grant_type |-> "refresh_token", client_id |-> client_id, code |-> NoId,
     redirect_uri |-> None, code_verifier |-> None, refresh_token |-> refresh_token]

OtherRequest(grant_type, client_id) ==
    [grant_type |-> grant_type, client_id |-> client_id, code |-> NoId,
     redirect_uri |-> None, code_verifier |-> None, refresh_token |-> NoToken]

\* A lookup that leaves the entry in place (get instead of pop).
PopAuth_Keep(requests, code) == requests

\* AUTH_REQUESTS.pop(code, None): the store afterwards.
PopAuth(requests, code) == Without(requests, code)

\* A grant that never compares the redirect_uri.
RedirectMismatch_Never(redirect_uri, auth_req) == FALSE

\* The redirect_uri comparison of _code_grant.
RedirectMismatch(redirect_uri, auth_req) == HttpUrlStr(redirect_uri) # auth_req.redirect_uri

\* A grant that goes on whatever verifier is presented.
PkcePasses_Always(code_verifier, auth_req) == TRUE

\* A PKCE test against the broker's own pair instead of the client's.
PkcePasses_BrokerPair(code_verifier, auth_req) ==
    code_verifier = auth_req.code_verifier

\* The PKCE test of _code_grant: TRUE when the grant goes on.
PkcePasses(code_verifier, auth_req) ==
    verify_pkce(code_verifier, auth_req.original_code_challenge)

\* A request that is taken to hold an upstream code before any callback.
HasCode_Always(auth_req) == TRUE

\* auth_req['code'] is there: the callback has stored the upstream code.
HasCode(auth_req) == auth_req.code # Absent

\* The form _code_grant sends upstream.
ExchangeForm(auth_req) ==
    [grant_type |-> "authorization_code", code |-> auth_req.code,
     redirect_uri |-> "SPOTIFY_REDIRECT_URI", client_id |-> "SPOTIFY_CLIENT_ID",
     client_secret |-> "SPOTIFY_CLIENT_SECRET", code_verifier |-> auth_req.code_verifier]

\* A token step that ends the invocation with `response`.
Reply(p, phase, request, response) ==
    /\ task' = [task EXCEPT ![p] = Idle]
    /\ last' = [op |-> "token", phase |-> phase, request |-> request,
                response |-> response]

\* A reply that leaves the invocation waiting on the upstream: the POST is
\* sent again.
ReplyAfter_Retry(p, phase, request, resp, response) ==
    /\ task' = task
    /\ last' = [op |-> "token", phase |-> phase, request |-> request,
                upstream |-> resp, response |-> response]

\* A token step that ends the invocation after the upstream answered `resp`.
ReplyAfter(p, phase, request, resp, response) ==
    /\ task' = [task EXCEPT ![p] = Idle]
    /\ last' = [op |-> "token", phase |-> phase, request |-> request,
                upstream |-> resp, response |-> response]

\* _code_grant up to the await of the upstream POST.
CodeGrantStart(p, request) ==
    LET code == request.code
        auth_req == Get(AUTH_REQUESTS, code)
    IN
    IF code = NoId \/ Falsy(request.redirect_uri) \/ Falsy(request.code_verifier)
    THEN /\ Reply(p, "start", request, OAuthException("invalid_request"))
         /\ UNCHANGED <<AUTH_REQUESTS, nTok, consumed, exchanges, pkce_ok>>
    ELSE IF auth_req = NoRecord
    THEN /\ Reply(p, "start", request, OAuthException("invalid_grant"))
         /\ UNCHANGED <<AUTH_REQUESTS, nTok, consumed, exchanges, pkce_ok>>
    ELSE /\ AUTH_REQUESTS' = PopAuth(AUTH_REQUESTS, code)
         /\ consumed' = consumed \cup {code}
         /\ IF RedirectMismatch(request.redirect_uri, auth_req)
            THEN /\ Reply(p, "start", request, OAuthException("invalid_request"))
                 /\ UNCHANGED <<nTok, exchanges, pkce_ok>>
            ELSE IF ~PkcePasses(request.code_verifier, auth_req)
            THEN /\ Reply(p, "start", request, OAuthException("pkce_failed"))
                 /\ UNCHANGED <<nTok, exchanges, pkce_ok>>
            ELSE /\ nTok < MaxTokens
                 /\ nTok' = nTok + 1
                 /\ pkce_ok' = IF verify_pkce(request.code_verifier,
                                              auth_req.original_code_challenge)
                               THEN pkce_ok \cup {code} ELSE pkce_ok
                 /\ IF ~HasCode(auth_req)
                    THEN \* auth_req['code'] raises KeyError inside the try
                         /\ Reply(p, "start", request, OAuthException("server_error"))
                         /\ UNCHANGED exchanges
                    ELSE /\ exchanges' = [exchanges EXCEPT ![code] = @ + 1]
                         /\ task' = [task EXCEPT ![p] =
                                [pc |-> "await_code", request |-> request,
                                 auth_req |-> auth_req, token_id |-> token_urlsafe(nTok),
                                 form |-> ExchangeForm(auth_req)]]
                         /\ last' = [op |-> "token", phase |-> "start",
                                     request |-> request, response |-> Pending]

\* A grant that does not look at the owner of the record.
OwnerMismatch_Never(client_id, stored_tokens) == FALSE

\* The ownership test of _refresh_grant.
OwnerMismatch(client_id, stored_tokens) == client_id # stored_tokens.client_id

\* The lookup of _refresh_grant: SPOTIFY_TOKENS.get(token_id).
LookupTokens(tokens, token_id) == Get(tokens, token_id)

\* _refresh_grant up to the await of the upstream POST.
RefreshGrantStart(p, request) ==
    LET token_data == verify_refresh_token(request.refresh_token)
        token_id == token_data.claims.token_id
        stored_tokens == LookupTokens(SPOTIFY_TOKENS, token_id)
    IN
    IF request.refresh_token = NoToken
    THEN /\ Reply(p, "start", request, OAuthException("invalid_request"))
    ELSE IF ~token_data.ok
    THEN /\ Reply(p, "start", request, OAuthException("invalid_grant"))
    ELSE IF stored_tokens = NoRecord
    THEN /\ Reply(p, "start", request, OAuthException("invalid_grant"))
    ELSE IF OwnerMismatch(request.client_id, stored_tokens)
    THEN /\ Reply(p, "start", request, OAuthException("invalid_client"))
    ELSE /\ task' = [task EXCEPT ![p] =
                [pc |-> "await_refresh", request |-> request, token_id |-> token_id,
                 stored_tokens |-> stored_tokens,
                 form |-> [grant_type |-> "refresh_token",
                           refresh_token |-> stored_tokens.refresh_token]]]
         /\ last' = [op |-> "token", phase |-> "start", request |-> request,
                     response |-> Pending]

\* issue_token: the grant_type and client checks, then the grant up to its await.
\* The checks of issue_token with the client looked up before the grant type.
issue_token_error_ClientFirst(grant_type, client_id) ==
    IF client_id \notin DOMAIN CLIENTS THEN "invalid_client"
    ELSE IF grant_type \notin GRANT_TYPES_SUPPORTED THEN "unsupported_grant_type"
    ELSE None

\* The checks of issue_token before it dispatches: the error raised, or None.
issue_token_error(grant_type, client_id) ==
    IF grant_type \notin GRANT_TYPES_SUPPORTED THEN "unsupported_grant_type"
    ELSE IF client_id \notin DOMAIN CLIENTS THEN "invalid_client"
    ELSE None

IssueToken(p, request) ==
    /\ task[p].pc = "idle"
    /\ IF issue_token_error(request.grant_type, request.client_id) # None
       THEN /\ Reply(p, "start", request,
                     OAuthException(issue_token_error(request.grant_type,
                                                      request.client_id)))
            /\ UNCHANGED <<AUTH_REQUESTS, nTok, consumed, exchanges, pkce_ok>>
       ELSE IF request.grant_type = "authorization_code"
       THEN CodeGrantStart(p, request)
       ELSE /\ RefreshGrantStart(p, request)
            /\ UNCHANGED <<AUTH_REQUESTS, nTok, consumed, exchanges, pkce_ok>>
    /\ UNCHANGED <<CLIENTS, SPOTIFY_TOKENS, now, nAuth, issued, called_back, origin,
                   rotated>>

(***************************************************************************)
(* The upstream token endpoint answers a pending POST: a transport error   *)
(* or timeout (httpx raises), a non-200 status, or 200 with a token body.  *)
(* Every 200 body carries a fresh access token; the refresh token and      *)
(* expires_in may be left out.                                             *)
(***************************************************************************)
UpstreamBody(n, with_refresh, with_expiry) ==
    [access_token |-> "upstream-access-" \o ToString(n),
     refresh_token |-> IF with_refresh THEN "upstream-refresh-" \o ToString(n)
                       ELSE Absent,
     expires_in |-> IF with_expiry THEN JWT_ACCESS_TTL ELSE NoInt]

\* What the upstream can answer, before the fresh token values are filled in.
UpstreamAnswers ==
    {[kind |-> "raised", status_code |-> 0, with_refresh |-> FALSE, with_expiry |-> FALSE],
     [kind |-> "status", status_code |-> 400, with_refresh |-> FALSE,
      with_expiry |-> FALSE]}
    \cup {[kind |-> "status", status_code |-> 200, with_refresh |-> r, with_expiry |-> e] :
             r \in BOOLEAN, e \in BOOLEAN}

\* resp.json() of a 200 answer, the n-th fresh token pair in it.
Json(answer, n) == UpstreamBody(n, answer.with_refresh, answer.with_expiry)

\* A grant that takes every upstream answer for a success.
ExchangeFailed_Never(resp) == FALSE

\* The POST of _code_grant raised (except Exception) or answered another
\* status than 200.
ExchangeFailed(resp) == resp.kind = "raised" \/ resp.status_code # 200

\* A token response that passes the upstream tokens through to the client.
CodeGrantResponse_Upstream(access_token, refresh_token, spotify_tokens, auth_req) ==
    [access_token |-> access_token, refresh_token |-> refresh_token,
     token_type |-> "bearer", expires_in |-> spotify_tokens.expires_in,
     scope |-> auth_req.original_scope,
     spotify_access_token |-> spotify_tokens.access_token,
     spotify_refresh_token |-> spotify_tokens.refresh_token]

\* The body _code_grant returns.
CodeGrantResponse(access_token, refresh_token, spotify_tokens, auth_req) ==
    [access_token |-> access_token, refresh_token |-> refresh_token,
     token_type |-> "bearer", expires_in |-> spotify_tokens.expires_in,
     scope |-> auth_req.original_scope]

\* The record _code_grant stores under token_id.
CodeTokenRecord(client_id, spotify_tokens, auth_req) ==
    [client_id |-> client_id, access_token |-> spotify_tokens.access_token,
     refresh_token |-> spotify_tokens.refresh_token, scope |-> auth_req.original_scope]

\* A grant that returns its tokens without storing the record.
StoreCodeTokens_Skip(tokens, token_id, record) == tokens

\* SPOTIFY_TOKENS[token_id] = record, in _code_grant.
StoreCodeTokens(tokens, token_id, record) == With(tokens, token_id, record)

\* _code_grant after the await: the upstream answer `resp` has arrived.
CodeGrantFinish(p, resp) ==
    LET f == task[p]
        token_id == f.token_id
    IN
    /\ f.pc = "await_code"
    /\ IF ExchangeFailed(resp)
       THEN /\ ReplyAfter(p, "code_finish", f.request, resp, OAuthException("server_error"))
            /\ UNCHANGED <<SPOTIFY_TOKENS, issued, origin>>
       ELSE LET spotify_tokens == Json(resp, token_id)
                access_token == generate_access_token(token_id, spotify_tokens.expires_in)
                refresh_token == generate_refresh_token(token_id)
            IN
            IF spotify_tokens.refresh_token = Absent
            THEN \* spotify_tokens["refresh_token"] raises KeyError
                 /\ ReplyAfter(p, "code_finish", f.request, resp, Unhandled("KeyError"))
                 /\ UNCHANGED <<SPOTIFY_TOKENS, issued, origin>>
            ELSE /\ SPOTIFY_TOKENS' = StoreCodeTokens(SPOTIFY_TOKENS, token_id,
                        CodeTokenRecord(f.request.client_id, spotify_tokens, f.auth_req))
                 /\ origin' = With(origin, token_id,
                        [grant |-> "authorization_code", from |-> f.request.code])
                 /\ issued' = issued \cup {access_token, refresh_token}
                 /\ task' = [task EXCEPT ![p] = Idle]
                 /\ last' = [op |-> "token", phase |-> "code_finish",
                             request |-> f.request, upstream |-> resp,
                             response |-> Ok,
                             body |-> CodeGrantResponse(access_token, refresh_token,
                                                        spotify_tokens, f.auth_req)]
    /\ UNCHANGED <<CLIENTS, AUTH_REQUESTS, now, nAuth, nTok, consumed, exchanges,
                   called_back, pkce_ok, rotated>>

\* A rotation that stores the new record without the scope of the old one.
RefreshTokenRecord_NoScope(client_id, new_token, stored_tokens) ==
    [client_id |-> client_id, access_token |-> new_token.access_token,
     refresh_token |-> new_token.refresh_token, scope |-> <<>>]

\* The record _refresh_grant stores under new_token_id.
RefreshTokenRecord(client_id, new_token, stored_tokens) ==
    [client_id |-> client_id, access_token |-> new_token.access_token,
     refresh_token |-> new_token.refresh_token, scope |-> stored_tokens.scope]

\* A rotation that leaves the old record in the store.
DeleteOld_Keep(tokens, token_id) == tokens

\* del SPOTIFY_TOKENS[token_id], in _refresh_grant.
DeleteOld(tokens, token_id) == Without(tokens, token_id)

\* _refresh_grant after the await: the upstream answer `resp` has arrived.
\* A refresh that takes every upstream status for a success.
RefreshFailed_Never(resp) == FALSE

\* The status test of _refresh_grant.
RefreshFailed(resp) == resp.status_code # 200

RefreshGrantFinish(p, resp) ==
    LET f == task[p]
        token_id == f.token_id
        new_token_id == token_urlsafe(nTok)
    IN
    /\ f.pc = "await_refresh"
    /\ IF resp.kind = "raised"
       THEN \* the POST is not inside a try: the httpx exception leaves the handler
            /\ ReplyAfter(p, "refresh_finish", f.request, resp, Unhandled("httpx.HTTPError"))
            /\ UNCHANGED <<SPOTIFY_TOKENS, nTok, issued, origin, rotated>>
       ELSE IF RefreshFailed(resp)
       THEN /\ ReplyAfter(p, "refresh_finish", f.request, resp, OAuthException("server_error"))
            /\ UNCHANGED <<SPOTIFY_TOKENS, nTok, issued, origin, rotated>>
       ELSE LET new_token == Json(resp, new_token_id)
                access_token == generate_access_token(new_token_id, new_token.expires_in)
                refresh_token == generate_refresh_token(new_token_id)
            IN
            /\ nTok < MaxTokens
            /\ nTok' = nTok + 1
            /\ IF token_id \notin DOMAIN SPOTIFY_TOKENS
               THEN \* del SPOTIFY_TOKENS[token_id] raises KeyError
                    /\ ReplyAfter(p, "refresh_finish", f.request, resp, Unhandled("KeyError"))
                    /\ UNCHANGED <<SPOTIFY_TOKENS, issued, origin, rotated>>
               ELSE IF new_token.refresh_token = Absent
               THEN \* new_token['refresh_token'] raises KeyError after the del
                    /\ SPOTIFY_TOKENS' = DeleteOld(SPOTIFY_TOKENS, token_id)
                    /\ ReplyAfter(p, "refresh_finish", f.request, resp, Unhandled("KeyError"))
                    /\ UNCHANGED <<issued, origin, rotated>>
               ELSE /\ SPOTIFY_TOKENS' = With(DeleteOld(SPOTIFY_TOKENS, token_id),
                            new_token_id,
                            RefreshTokenRecord(f.request.client_id, new_token,
                                               f.stored_tokens))
                    /\ origin' = With(origin, new_token_id,
                            [grant |-> "refresh_token", from |-> token_id])
                    /\ rotated' = rotated \cup {token_id}
                    /\ issued' = issued \cup {access_token, refresh_token}
                    /\ task' = [task EXCEPT ![p] = Idle]
                    /\ last' = [op |-> "token", phase |-> "refresh_finish",
                                request |-> f.request, upstream |-> resp,
                                response |-> Ok,
                                body |-> [access_token |-> access_token,
                                          token_type |-> "bearer",
                                          expires_in |-> new_token.expires_in,
                                          refresh_token |-> refresh_token,
                                          scope |-> f.stored_tokens.scope]]
    /\ UNCHANGED <<CLIENTS, AUTH_REQUESTS, now, nAuth, consumed, exchanges,
                   called_back, pkce_ok>>

(***************************************************************************)
(* Resource-call token verifier                                            *)
(* (src/src/spotify_mcp/utils/token_verifier.py).                          *)
(***************************************************************************)
\* JWTTokenVerifier.verify_token: the AccessToken, or NoRecord for None.
verify_token(token) ==
    LET token_data == verify_access_token(token) IN
    IF ~token_data.ok THEN NoRecord
    ELSE LET spotify_token == Get(SPOTIFY_TOKENS, token_data.claims.token_id) IN
         IF spotify_token = NoRecord THEN NoRecord
         ELSE [token |-> token, client_id |-> spotify_token.client_id,
               scopes |-> spotify_token.scope, expires_at |-> token_data.claims.exp]

VerifyToken(token) ==
    /\ last' = [op |-> "verify_token", token |-> token, result |-> verify_token(token)]
    /\ UNCHANGED <<stores, now, nAuth, nTok, task, issued, history>>

\* A wrapper that reads the token_id of the token without verifying it.
with_spotify_token_Unverified(token) ==
    LET stored_tokens == Get(SPOTIFY_TOKENS, token.claims.token_id) IN
    IF stored_tokens = NoRecord THEN [ok |-> FALSE, exception |-> "AppException"]
    ELSE [ok |-> TRUE,
          headers |-> [Authorization |-> stored_tokens.access_token,
                       ContentType |-> "application/json"]]

\* The with_spotify_token wrapper (src/src/spotify_mcp/utils/decorators.py):
\* the headers it calls the wrapped function with, or the exception it raises.
with_spotify_token(token) ==
    LET token_data == verify_access_token(token) IN
    IF ~token_data.ok THEN [ok |-> FALSE, exception |-> token_data.exception]
    ELSE LET stored_tokens == Get(SPOTIFY_TOKENS, token_data.claims.token_id) IN
         IF stored_tokens = NoRecord THEN [ok |-> FALSE, exception |-> "AppException"]
         ELSE [ok |-> TRUE,
               headers |-> [Authorization |-> stored_tokens.access_token,
                            ContentType |-> "application/json"]]

WithSpotifyToken(token) ==
    /\ last' = [op |-> "with_spotify_token", token |-> token,
                result |-> with_spotify_token(token)]
    /\ UNCHANGED <<stores, now, nAuth, nTok, task, issued, history>>

(***************************************************************************)
(* The system.                                                             *)
(***************************************************************************)
Init ==
    /\ CLIENTS = <<>>
    /\ AUTH_REQUESTS = <<>>
    /\ SPOTIFY_TOKENS = <<>>
    /\ now = 0
    /\ nAuth = 0
    /\ nTok = 0
    /\ task = [p \in Tasks |-> Idle]
    /\ issued = {}
    /\ last = [op |-> "none"]
    /\ consumed = {}
    /\ exchanges = [a \in 1..MaxAuth |-> 0]
    /\ called_back = {}
    /\ pkce_ok = {}
    /\ origin = <<>>
    /\ rotated = {}

ClientIds == 1..MaxClients
AuthIds == 1..MaxAuth

(***************************************************************************)
(* The inputs the handlers are called with.                                *)
(***************************************************************************)
AuthorizeInput(response_type, client_id, redirect_uri, scope, state, code_challenge, code_challenge_method) ==
    [response_type |-> response_type, client_id |-> client_id,
     redirect_uri |-> redirect_uri, scope |-> scope, state |-> state,
     code_challenge |-> code_challenge, code_challenge_method |-> code_challenge_method]

GoodUri == "https://app.example/cb"
GoodScope == <<"user-read-private">>
TwoScopes == <<"user-read-private", "user-read-email">>

\* Well-formed calls of every client, and calls that break one rule each.
AuthorizeInputs ==
    {AuthorizeInput("code", c, GoodUri, GoodScope, "xyz", S256("v1"), "S256") :
        c \in ClientIds}
    \cup {AuthorizeInput("code", 1, GoodUri, GoodScope, None, S256("v1"), "S256"),
          AuthorizeInput("token", 1, GoodUri, GoodScope, None, S256("v1"), "S256"),
          AuthorizeInput("code", 1, "https://app.example/alt", GoodScope, None,
                         S256("v1"), "S256"),
          AuthorizeInput("code", 1, GoodUri, GoodScope, None, None, "S256"),
          AuthorizeInput("code", 1, GoodUri, GoodScope, None, S256("v1"), "plain"),
          AuthorizeInput("code", 1, GoodUri, <<>>, None, S256("v1"), "S256"),
          AuthorizeInput("code", 1, GoodUri, <<"admin">>, None, S256("v1"), "S256")}

\* Every combination of a passing and a failing value of each parameter
\* authorize checks.
AuthorizeCombinations ==
    {AuthorizeInput(response_type, c, uri, scope, "xyz", challenge, method) :
        response_type \in {"code", "token"}, c \in ClientIds,
        uri \in {GoodUri, "https://app.example/alt"},
        scope \in {GoodScope, <<>>, <<"admin">>},
        challenge \in {S256("v1"), None}, method \in {"S256", "plain"}}

TokenRequests ==
    {CodeRequest(c, a, GoodUri, v) : c \in ClientIds, a \in AuthIds,
                                     v \in ClientVerifiers}
    \cup {CodeRequest(1, a, u, "v1") :
             a \in AuthIds, u \in {"https://app.example/alt", "https://APP.EXAMPLE/cb"}}
    \cup {CodeRequest(1, NoId, GoodUri, "v1"), CodeRequest(1, 1, None, "v1"),
          CodeRequest(1, 1, GoodUri, None)}
    \cup {CodeRequest(1, a, GoodUri, generate_pkce_pair(a)[1]) : a \in AuthIds}
    \cup {RefreshRequest(c, t) : c \in ClientIds, t \in Presentable}
    \cup {RefreshRequest(1, NoToken), OtherRequest("password", 1),
          [CodeRequest(2, 1, GoodUri, "v1") EXCEPT !.grant_type = "password"]}

\* The frames are interchangeable: a new invocation takes the first idle one.
FreeTask(p) == task[p].pc = "idle" /\ \A q \in Tasks : q < p => task[q].pc # "idle"

\* The response of the handler that just ran has been sent: `last` is cleared.
\* A handler runs to its next await without interruption, so observing each
\* response before the next handler runs loses no interleaving.
NoResponse == [op |-> "none"]
Quiet == last = NoResponse

Deliver ==
    /\ ~Quiet
    /\ last' = NoResponse
    /\ UNCHANGED <<stores, now, nAuth, nTok, task, issued, history>>

Next ==
    \/ Quiet /\ \E payload \in RegPayloads : Register(payload)
    \/ Quiet /\ \E i \in AuthorizeInputs :
            Authorize(i.response_type, i.client_id, i.redirect_uri, i.scope, i.state,
                      i.code_challenge, i.code_challenge_method)
    \/ Quiet /\ \E code \in UpstreamCodes, state \in AuthIds : Callback(code, state)
    \/ Quiet /\ \E p \in Tasks, request \in TokenRequests :
            FreeTask(p) /\ IssueToken(p, request)
    \/ Quiet /\ \E p \in Tasks, resp \in UpstreamAnswers : CodeGrantFinish(p, resp)
    \/ Quiet /\ \E p \in Tasks, resp \in UpstreamAnswers : RefreshGrantFinish(p, resp)
    \/ Quiet /\ \E token \in Presentable : VerifyToken(token)
    \/ Quiet /\ Tick
    \/ Deliver

Spec == Init /\ [][Next]_vars

\* register and authorize, the latter over every combination of its inputs.
NextAuthorize ==
    \/ Quiet /\ \E payload \in RegPayloads : Register(payload)
    \/ Quiet /\ \E i \in AuthorizeCombinations :
            Authorize(i.response_type, i.client_id, i.redirect_uri, i.scope, i.state,
                      i.code_challenge, i.code_challenge_method)
    \/ Quiet /\ Tick
    \/ Deliver

SpecAuthorize == Init /\ [][NextAuthorize]_vars

\* The whole flow for requests of one and of two scopes: register, authorize,
\* callback, code grant, refreshes.
ScopeAuthorizeInputs ==
    {AuthorizeInput("code", 1, GoodUri, scope, "xyz", S256("v1"), "S256") :
        scope \in {GoodScope, TwoScopes}}

ScopeTokenRequests ==
    {CodeRequest(1, a, GoodUri, "v1") : a \in AuthIds}
    \cup {RefreshRequest(1, t) : t \in {i \in issued : i.claims.typ = "refresh"}}

NextScope ==
    \/ Quiet /\ \E payload \in RegPayloads : Register(payload)
    \/ Quiet /\ \E i \in ScopeAuthorizeInputs :
            Authorize(i.response_type, i.client_id, i.redirect_uri, i.scope, i.state,
                      i.code_challenge, i.code_challenge_method)
    \/ Quiet /\ \E code \in UpstreamCodes, state \in AuthIds : Callback(code, state)
    \/ Quiet /\ \E p \in Tasks, request \in ScopeTokenRequests :
            FreeTask(p) /\ IssueToken(p, request)
    \/ Quiet /\ \E p \in Tasks, resp \in UpstreamAnswers : CodeGrantFinish(p, resp)
    \/ Quiet /\ \E p \in Tasks, resp \in UpstreamAnswers : RefreshGrantFinish(p, resp)
    \/ Quiet /\ Tick
    \/ Deliver

SpecScope == Init /\ [][NextScope]_vars

\* The flow with well-formed requests only, under the scheduling the runtime
\* gives: a response that is ready is sent, and a pending upstream POST comes
\* back (with an answer, or as the exception httpx raises after timeout=10),
\* whereupon the event loop resumes the handler that awaits it.
LiveAuthorizeInputs ==
    {AuthorizeInput("code", 1, GoodUri, GoodScope, "xyz", S256("v1"), "S256")}

LiveTokenRequests ==
    {CodeRequest(1, a, GoodUri, "v1") : a \in AuthIds}
    \cup {RefreshRequest(1, t) : t \in {i \in issued : i.claims.typ = "refresh"}}

\* The upstream answers the POST task p awaits and the handler goes on.
Resume(p) ==
    Quiet /\ \E resp \in UpstreamAnswers :
                 CodeGrantFinish(p, resp) \/ RefreshGrantFinish(p, resp)

NextLive ==
    \/ Quiet /\ \E payload \in RegPayloads : Register(payload)
    \/ Quiet /\ \E i \in LiveAuthorizeInputs :
            Authorize(i.response_type, i.client_id, i.redirect_uri, i.scope, i.state,
                      i.code_challenge, i.code_challenge_method)
    \/ Quiet /\ \E state \in AuthIds : Callback("uc1", state)
    \/ Quiet /\ \E p \in Tasks, request \in LiveTokenRequests :
            FreeTask(p) /\ IssueToken(p, request)
    \/ \E p \in Tasks : Resume(p)
    \/ Deliver

SpecLive ==
    /\ Init
    /\ [][NextLive]_vars
    /\ WF_vars(Deliver)
    /\ \A p \in Tasks : SF_vars(Resume(p))

\* The flow with well-formed requests, and resource calls with every token a
\* caller can present, before and after the access tokens expire.
NextResource ==
    \/ Quiet /\ \E payload \in RegPayloads : Register(payload)
    \/ Quiet /\ \E i \in LiveAuthorizeInputs :
            Authorize(i.response_type, i.client_id, i.redirect_uri, i.scope, i.state,
                      i.code_challenge, i.code_challenge_method)
    \/ Quiet /\ \E state \in AuthIds : Callback("uc1", state)
    \/ Quiet /\ \E p \in Tasks, request \in LiveTokenRequests :
            FreeTask(p) /\ IssueToken(p, request)
    \/ \E p \in Tasks : Resume(p)
    \/ Quiet /\ \E token \in Presentable : VerifyToken(token)
    \/ Quiet /\ \E token \in Presentable : WithSpotifyToken(token)
    \/ Quiet /\ Tick
    \/ Deliver

SpecResource == Init /\ [][NextResource]_vars

\* register_client on its own, over every combination of its inputs.
NextRegister ==
    \/ Quiet /\ \E payload \in RegisterInputs : register_client(payload)
    \/ Quiet /\ Tick
    \/ Deliver

SpecRegister == Init /\ [][NextRegister]_vars

(***************************************************************************)
(* Properties.  A handler step is recognised by the response it leaves in  *)
(* `last`; unprimed variables are the state the handler found.             *)
(***************************************************************************)
\* issue_token has just run on a request, up to its answer or its await.
TokenStart == Quiet /\ last'.op = "token" /\ last'.phase = "start"

\* The request carries every field _code_grant requires.
CodeFieldsPresent(request) ==
    request.code # NoId /\ ~Falsy(request.redirect_uri) /\ ~Falsy(request.code_verifier)

\* C1: authorization codes are single-use.  Once a token request has consumed
\* a code (whether that request went on to succeed or to fail), every later
\* authorization_code request presenting the code ends at once with an OAuth
\* error: no upstream exchange is started, no token is issued and the token
\* store is untouched.  When the request passes the checks that come before
\* the code lookup (supported grant type, registered client, no missing
\* field) the error is invalid_grant.
C1_CodeSingleUse ==
    [][(/\ TokenStart
        /\ last'.request.grant_type = "authorization_code"
        /\ last'.request.code \in consumed)
       => /\ last'.response.kind = "OAuthException"
          /\ UNCHANGED <<SPOTIFY_TOKENS, issued, exchanges, nTok>>
          /\ task' = task
          /\ (last'.request.client_id \in DOMAIN CLIENTS
              /\ CodeFieldsPresent(last'.request))
             => last'.response.error = "invalid_grant"]_vars

\* A consumed code was presented again, by a registered client with every
\* field, and was refused with invalid_grant.
C1_Witness ==
    /\ last.op = "token"
    /\ last.phase = "start"
    /\ last.request.grant_type = "authorization_code"
    /\ last.request.code \in consumed
    /\ last.response = OAuthException("invalid_grant")
    /\ \E t \in DOMAIN origin : /\ origin[t].grant = "authorization_code"
                                /\ origin[t].from = last.request.code

\* The upstream answered 200 with a body that holds a refresh token.
Complete(resp) == resp.kind = "status" /\ resp.status_code = 200 /\ resp.with_refresh

\* The token records a code grant created from authorization code `code`.
RecordsFromCode(code) ==
    {t \in DOMAIN origin : origin[t].grant = "authorization_code" /\ origin[t].from = code}

\* C2: of the token requests that present the same valid code, also while one
\* of them is still waiting for the upstream answer, exactly one gets past
\* the code lookup: at most one upstream exchange is sent for the code and at
\* most one token record is ever created from it; every other request with
\* that code (and no missing field) fails with invalid_grant; the one that
\* got through succeeds when the upstream answers 200 with a complete body.
C2_OneExchangePerCode ==
    /\ \A code \in AuthIds :
          /\ exchanges[code] <= 1
          /\ Cardinality(RecordsFromCode(code)) <= 1
          /\ Cardinality({p \in Tasks : /\ task[p].pc = "await_code"
                                        /\ task[p].request.code = code}) <= 1
    /\ (/\ last.op = "token"
        /\ last.phase = "start"
        /\ last.response # Pending
        /\ \E q \in Tasks : /\ task[q].pc = "await_code"
                            /\ task[q].request.code = last.request.code
                            /\ task[q].request.grant_type = last.request.grant_type
                            /\ task[q].request.client_id = last.request.client_id
        /\ CodeFieldsPresent(last.request))
       => last.response = OAuthException("invalid_grant")
    /\ (last.op = "token" /\ last.phase = "code_finish" /\ Complete(last.upstream))
       => /\ last.response = Ok
          /\ RecordsFromCode(last.request.code) = {last.body.access_token.claims.token_id}

\* While a request was waiting for the upstream answer, the very same request
\* was made again and refused with invalid_grant.
C2_Witness ==
    /\ last.op = "token"
    /\ last.phase = "start"
    /\ last.response = OAuthException("invalid_grant")
    /\ \E q \in Tasks : task[q].pc = "await_code" /\ task[q].request = last.request

\* _refresh_grant has just resumed with the upstream answer and ended.
RefreshFinish == Quiet /\ last'.op = "token" /\ last'.phase = "refresh_finish"

\* The token records a refresh grant created in place of record `token_id`.
RecordsFromToken(org, token_id) ==
    {t \in DOMAIN org : org[t].grant = "refresh_token" /\ org[t].from = token_id}

\* C3: of the refresh grants that presented the same valid refresh token and
\* were both waiting for the upstream answer, the first to resume with a 200
\* answer holding a refresh token succeeds and replaces the old record by one
\* new record; a grant that resumes after the old record is gone does not
\* succeed, issues nothing and leaves the store as it is.  So at most one
\* token record is ever derived from one old token_id.
C3_OneRotationPerToken ==
    [][RefreshFinish =>
        LET old == last'.request.refresh_token.claims.token_id IN
        /\ \A t \in 1..MaxTokens : Cardinality(RecordsFromToken(origin', t)) <= 1
        /\ (old \in DOMAIN SPOTIFY_TOKENS /\ Complete(last'.upstream))
           => /\ last'.response = Ok
              /\ \E new \in (DOMAIN SPOTIFY_TOKENS') \ DOMAIN SPOTIFY_TOKENS :
                    /\ DOMAIN SPOTIFY_TOKENS' = (DOMAIN SPOTIFY_TOKENS \ {old}) \cup {new}
                    /\ RecordsFromToken(origin', old) = {new}
        /\ old \notin DOMAIN SPOTIFY_TOKENS
           => /\ ~last'.response.ok
              /\ UNCHANGED <<SPOTIFY_TOKENS, issued, origin>>]_vars

\* Two grants raced on one refresh token: the second to resume got a complete
\* 200 answer from the upstream, found the record already rotated and failed.
C3_Witness ==
    /\ last.op = "token"
    /\ last.phase = "refresh_finish"
    /\ Complete(last.upstream)
    /\ ~last.response.ok
    /\ last.request.refresh_token.claims.token_id \in rotated
    /\ Cardinality(RecordsFromToken(origin,
                        last.request.refresh_token.claims.token_id)) = 1

\* C4: refresh-token rotation.  After a refresh grant has succeeded with a
\* refresh token, every later refresh grant that presents a token with the
\* same token_id ends at once with an OAuth error and sends nothing upstream;
\* the error is invalid_grant whenever the client is registered.
C4_RotatedTokenRefused ==
    [][(/\ TokenStart
        /\ last'.request.grant_type = "refresh_token"
        /\ last'.request.refresh_token # NoToken
        /\ last'.request.refresh_token.claims.token_id \in rotated)
       => /\ last'.response.kind = "OAuthException"
          /\ task' = task
          /\ last'.request.client_id \in DOMAIN CLIENTS
             => last'.response.error = "invalid_grant"]_vars

\* A genuine, unexpired refresh token whose record was rotated away was
\* presented again by a registered client and refused with invalid_grant.
C4_Witness ==
    /\ last.op = "token"
    /\ last.phase = "start"
    /\ last.request.grant_type = "refresh_token"
    /\ last.request.refresh_token # NoToken
    /\ verify_refresh_token(last.request.refresh_token).ok
    /\ last.request.refresh_token.claims.token_id \in rotated
    /\ last.request.client_id \in DOMAIN CLIENTS
    /\ last.response = OAuthException("invalid_grant")

\* issue_token has just run on an authorization_code request of a registered
\* client, with no field missing, whose code names a stored request.
CodeStart ==
    /\ TokenStart
    /\ last'.request.grant_type = "authorization_code"
    /\ last'.request.client_id \in DOMAIN CLIENTS
    /\ CodeFieldsPresent(last'.request)
    /\ last'.request.code \in DOMAIN AUTH_REQUESTS

\* C5: an authorization_code request whose code_verifier does not hash
\* (S256) to the original_code_challenge of the request its code names never
\* reaches the upstream exchange: it ends with an OAuth error, no exchange is
\* sent, no token is issued and the token store is unchanged.  The error is
\* pkce_failed when the redirect_uri matches the stored one (the check that
\* comes before the PKCE test).
C5_PkceMismatch ==
    [][(/\ CodeStart
        /\ S256(last'.request.code_verifier)
             # AUTH_REQUESTS[last'.request.code].original_code_challenge)
       => /\ last'.response.kind = "OAuthException"
          /\ UNCHANGED <<SPOTIFY_TOKENS, issued, exchanges, origin>>
          /\ task' = task
          /\ HttpUrlStr(last'.request.redirect_uri)
                = AUTH_REQUESTS[last'.request.code].redirect_uri
             => last'.response = OAuthException("pkce_failed")]_vars

\* A request with the right code and redirect_uri and a wrong verifier, made
\* after the callback, was refused with pkce_failed.
C5_Witness ==
    /\ last.op = "token"
    /\ last.phase = "start"
    /\ last.response = OAuthException("pkce_failed")
    /\ last.request.code \in called_back
    /\ last.request.code \in consumed
    /\ last.request.code_verifier = "v2"

\* C6: an upstream code exchange has been sent for an auth_id only if the
\* callback recorded an upstream code for it before, and a token request
\* presented a code_verifier that verifies against its
\* original_code_challenge no later than the step that sent the exchange.
C6_ExchangeAfterCallbackAndPkce ==
    \A a \in AuthIds :
        exchanges[a] > 0 => a \in called_back /\ a \in pkce_ok

\* An exchange is in flight for a request that was called back and whose
\* verifier was proved.
C6_Witness ==
    \E p \in Tasks :
        /\ task[p].pc = "await_code"
        /\ exchanges[task[p].request.code] = 1
        /\ task[p].request.code \in called_back \cap pkce_ok
        /\ task[p].form.code \in UpstreamCodes

\* The request issue_token has just run on is valid but for the age of the
\* stored request: called back, matching redirect_uri, verifying verifier.
OtherwiseValid ==
    LET auth_req == AUTH_REQUESTS[last'.request.code] IN
    /\ HasCode(auth_req)
    /\ ~RedirectMismatch(last'.request.redirect_uri, auth_req)
    /\ verify_pkce(last'.request.code_verifier, auth_req.original_code_challenge)

\* C7 (as claimed): an AuthorizationRequest touched after its expires_at is
\* not honoured, purged or not.  A callback for it is answered
\* invalid_request; an otherwise valid authorization_code request for it is
\* answered invalid_grant, sends no upstream exchange and issues nothing.
C7_ExpiredNeverHonoured ==
    [][/\ (/\ Quiet
           /\ last'.op = "callback"
           /\ last'.state \in DOMAIN AUTH_REQUESTS
           /\ now > AUTH_REQUESTS[last'.state].expires_at)
          => last'.response = OAuthException("invalid_request")
       /\ (/\ CodeStart
           /\ OtherwiseValid
           /\ now > AUTH_REQUESTS[last'.request.code].expires_at)
          => /\ last'.response = OAuthException("invalid_grant")
             /\ UNCHANGED <<SPOTIFY_TOKENS, issued, exchanges>>
             /\ task' = task]_vars

\* C8: when an authorization_code request succeeds, the access token it
\* returns has type "access", the refresh token has type "refresh", both
\* carry the same token_id, and in the state in which the response is
\* returned that token_id is a key of the token store, so the verifier
\* accepts the access token at once.  No token has ever been issued whose
\* record was not created by then.
C8_RoundTrip ==
    /\ (last.op = "token" /\ last.phase = "code_finish" /\ last.response = Ok)
       => LET access == last.body.access_token
              refresh == last.body.refresh_token
          IN /\ access.claims.typ = "access"
             /\ refresh.claims.typ = "refresh"
             /\ access.claims.token_id = refresh.claims.token_id
             /\ access.claims.token_id \in DOMAIN SPOTIFY_TOKENS
             /\ verify_token(access) # NoRecord
             /\ verify_refresh_token(refresh).ok
    /\ \A token \in issued : token.claims.token_id \in DOMAIN origin

\* A registered client went through authorize and the callback, and its
\* authorization_code request has just succeeded.
C8_Witness ==
    /\ last.op = "token"
    /\ last.phase = "code_finish"
    /\ last.response = Ok
    /\ last.request.client_id \in DOMAIN CLIENTS
    /\ last.request.code \in called_back \cap consumed
    /\ last.body.access_token \in issued

\* C9: a token record is resolved only by a token of the matching type.
\* The resource-call verifier accepts a token exactly when it is signed with
\* the broker's key, unexpired, of type "access", and its token_id is a key
\* of the token store.  The refresh grant goes on to the upstream only for a
\* token signed with the broker's key, unexpired, of type "refresh", with a
\* live token_id; a token of another type presented as refresh_token ends
\* with an OAuth error, invalid_grant whenever the client is registered.
C9_TypeMatching ==
    /\ last.op = "verify_token"
       => (last.result # NoRecord
           <=> /\ last.token.sig = JWT_SECRET
               /\ last.token.claims.exp > now
               /\ last.token.claims.typ = "access"
               /\ last.token.claims.token_id \in DOMAIN SPOTIFY_TOKENS)
    /\ (/\ last.op = "token"
        /\ last.phase = "start"
        /\ last.request.grant_type = "refresh_token"
        /\ last.request.refresh_token # NoToken)
       => LET token == last.request.refresh_token IN
          /\ last.response = Pending
             => /\ token.sig = JWT_SECRET
                /\ token.claims.exp > now
                /\ token.claims.typ = "refresh"
                /\ token.claims.token_id \in DOMAIN SPOTIFY_TOKENS
          /\ token.claims.typ # "refresh"
             => /\ last.response.kind = "OAuthException"
                /\ last.request.client_id \in DOMAIN CLIENTS
                   => last.response.error = "invalid_grant"

\* A genuine, unexpired access token of a live record was presented as
\* refresh_token by a registered client and refused with invalid_grant.
C9_Witness ==
    /\ last.op = "token"
    /\ last.phase = "start"
    /\ last.request.grant_type = "refresh_token"
    /\ last.request.refresh_token \in issued
    /\ last.request.refresh_token.claims.typ = "access"
    /\ last.request.refresh_token.claims.exp > now
    /\ last.request.refresh_token.claims.token_id \in DOMAIN SPOTIFY_TOKENS
    /\ last.request.client_id \in DOMAIN CLIENTS
    /\ last.response = OAuthException("invalid_grant")

\* C10: a token_id that a successful refresh has replaced is never again a
\* key of the token store, and the verifier rejects every token carrying it.
C10_RotationPermanent ==
    /\ \A token_id \in rotated : token_id \notin DOMAIN SPOTIFY_TOKENS
    /\ (last.op = "verify_token" /\ last.token.claims.token_id \in rotated)
       => last.result = NoRecord

\* A genuine, unexpired access token whose record was rotated away was shown
\* to the verifier and rejected, while the record that replaced it is live.
C10_Witness ==
    /\ last.op = "verify_token"
    /\ last.token \in issued
    /\ last.token.claims.typ = "access"
    /\ last.token.claims.exp > now
    /\ last.token.claims.token_id \in rotated
    /\ last.result = NoRecord
    /\ RecordsFromToken(origin, last.token.claims.token_id) \cap DOMAIN SPOTIFY_TOKENS # {}

\* C11 (as claimed): a refresh replaces the token record wholesale or leaves
\* it untouched.  When a refresh grant on token_id T has ended, whatever the
\* upstream answered, either T is still a key of the store and no record was
\* made from it, or T is gone and exactly one record made from it exists.
C11_ReplaceOrUntouched ==
    (last.op = "token" /\ last.phase = "refresh_finish")
    => LET T == last.request.refresh_token.claims.token_id IN
       \/ T \in DOMAIN SPOTIFY_TOKENS /\ RecordsFromToken(origin, T) = {}
       \/ T \notin DOMAIN SPOTIFY_TOKENS /\ Cardinality(RecordsFromToken(origin, T)) = 1

C13_RequestsNameRegisteredClients ==
    \A a \in DOMAIN AUTH_REQUESTS :
        /\ AUTH_REQUESTS[a].client_id \in DOMAIN CLIENTS
        /\ AUTH_REQUESTS[a].redirect_uri
              \in Range(CLIENTS[AUTH_REQUESTS[a].client_id].redirect_uris)

\* Two requests are stored, of two different registered clients.
C13_Witness ==
    /\ Cardinality(DOMAIN AUTH_REQUESTS) = 2
    /\ \E a, b \in DOMAIN AUTH_REQUESTS :
          AUTH_REQUESTS[a].client_id # AUTH_REQUESTS[b].client_id

\* issue_token has just run on a refresh_token request of a registered
\* client whose token verifies as a refresh token and names a stored record.
RefreshStart ==
    /\ TokenStart
    /\ last'.request.grant_type = "refresh_token"
    /\ last'.request.client_id \in DOMAIN CLIENTS
    /\ last'.request.refresh_token # NoToken
    /\ verify_refresh_token(last'.request.refresh_token).ok
    /\ last'.request.refresh_token.claims.token_id \in DOMAIN SPOTIFY_TOKENS

\* C14: a refresh grant by a registered client that is not the owner of the
\* token record is answered invalid_client; nothing is sent upstream and the
\* token store is unchanged, so the record is still there under its owner
\* and the refresh token still verifies.
C14_OwnershipMismatch ==
    [][(/\ RefreshStart
        /\ last'.request.client_id
             # SPOTIFY_TOKENS[last'.request.refresh_token.claims.token_id].client_id)
       => /\ last'.response = OAuthException("invalid_client")
          /\ task' = task
          /\ UNCHANGED <<SPOTIFY_TOKENS, issued, origin, rotated, now>>]_vars

\* A registered client presented another client's live refresh token and was
\* refused with invalid_client; the record is still in the store.
C14_Witness ==
    /\ last.op = "token"
    /\ last.phase = "start"
    /\ last.request.grant_type = "refresh_token"
    /\ last.response = OAuthException("invalid_client")
    /\ last.request.client_id \in DOMAIN CLIENTS
    /\ last.request.refresh_token \in issued
    /\ verify_refresh_token(last.request.refresh_token).ok
    /\ last.request.refresh_token.claims.token_id \in DOMAIN SPOTIFY_TOKENS

\* The upstream answer is a failure: the request raised (transport error,
\* timeout) or the status is not 200.
Failed(resp) == resp.kind = "raised" \/ resp.status_code # 200

\* C15: when the upstream code exchange fails (the POST raises, as on a
\* transport error or timeout, or answers another status than 200), the token
\* request is answered server_error, no token record is made from the code
\* and the AuthorizationRequest stays consumed (no consumed auth_id is ever a
\* key of AUTH_REQUESTS again); a later request with the code, once its
\* exchange is over, is answered invalid_grant.
C15_ExchangeFailure ==
    /\ (/\ last.op = "token"
        /\ last.phase = "code_finish"
        /\ Failed(last.upstream))
       => /\ last.response = OAuthException("server_error")
          /\ RecordsFromCode(last.request.code) = {}
          /\ last.request.code \in consumed
    /\ \A code \in consumed : code \notin DOMAIN AUTH_REQUESTS
    /\ (/\ last.op = "token"
        /\ last.phase = "start"
        /\ last.request.grant_type = "authorization_code"
        /\ last.request.client_id \in DOMAIN CLIENTS
        /\ CodeFieldsPresent(last.request)
        /\ exchanges[last.request.code] > 0
        /\ \A p \in Tasks : task[p].pc = "await_code"
                            => task[p].request.code # last.request.code)
       => last.response = OAuthException("invalid_grant")

\* The exchange for a code failed, and a later request with the same code
\* (no record was ever made from it) was answered invalid_grant.
C15_Witness ==
    /\ last.op = "token"
    /\ last.phase = "start"
    /\ last.request.grant_type = "authorization_code"
    /\ last.response = OAuthException("invalid_grant")
    /\ last.request.code \in consumed
    /\ exchanges[last.request.code] = 1
    /\ RecordsFromCode(last.request.code) = {}
    /\ issued = {}
    /\ \A p \in Tasks : task[p].pc = "idle"

\* C16: when the upstream refresh call fails in any way (the POST raises, as
\* on a transport error or timeout, or answers another status than 200), the
\* refresh_token grant is answered with the OAuth error server_error.
C16_RefreshFailure ==
    (/\ last.op = "token"
     /\ last.phase = "refresh_finish"
     /\ Failed(last.upstream))
    => last.response = OAuthException("server_error")

\* C17: every failing outcome of register, authorize, callback and token is a
\* structured OAuth error (an OAuthException: error code plus description);
\* none is an unhandled internal exception or a differently shaped body.
C17_StructuredErrors ==
    (/\ last.op \in {"register", "authorize", "callback", "token"}
     /\ last.response.kind # "pending"
     /\ ~last.response.ok)
    => last.response.kind = "OAuthException"

\* C18: an error response carries the HTTP status of its class: 502 for an
\* upstream failure (server_error), 401 for a refresh token that is invalid,
\* expired or no longer known (invalid_grant of the refresh_token grant), and
\* 400 for the client and request errors.
C18_StatusByClass ==
    (/\ last.op \in {"register", "authorize", "callback", "token"}
     /\ last.response.kind = "OAuthException")
    => last.response.status_code =
         IF last.response.error = "server_error" THEN 502
         ELSE IF /\ last.op = "token"
                 /\ last.request.grant_type = "refresh_token"
                 /\ last.response.error = "invalid_grant"
              THEN 401
         ELSE 400

\* The validations of register a payload violates, numbered in the order
\* redirect_uris, grant_types, response_types, token_endpoint_auth_method,
\* scope, and the OAuth error of each.
Violations(payload) ==
    {i \in 1..5 :
        \/ i = 1 /\ Len(payload.redirect_uris) = 0
        \/ i = 2 /\ \E g \in Range(payload.grant_types) : g \notin GRANT_TYPES_SUPPORTED
        \/ i = 3 /\ \E r \in Range(payload.response_types) :
                        r \notin RESPONSE_TYPES_SUPPORTED
        \/ i = 4 /\ payload.token_endpoint_auth_method # "none"
        \/ i = 5 /\ \E sc \in Range(payload.scope) : sc \notin SUPPORTED_SCOPES}

ValidationErrors ==
    <<"invalid_client_metadata", "unsupported_grant_type", "unsupported_response_type",
      "invalid_client_metadata", "invalid_scope">>

\* C19: a register call that fails a validation (empty redirect_uris,
\* unsupported grant_types, unsupported response_types,
\* token_endpoint_auth_method other than "none", unsupported scope) is answered
\* with the OAuth error of a validation it fails, and leaves the Client
\* Registry as it was.
C19_FailedRegistration ==
    [][(/\ Quiet
        /\ last'.op = "register"
        /\ Violations(last'.payload) # {})
       => /\ last'.response.kind = "OAuthException"
          /\ \E i \in Violations(last'.payload) :
                last'.response.error = ValidationErrors[i]
          /\ CLIENTS' = CLIENTS]_vars

AuthorizeViolations(request) ==
    {i \in 1..6 :
        \/ i = 1 /\ request.response_type # "code"
        \/ i = 2 /\ request.client_id \notin DOMAIN CLIENTS
        \/ i = 3 /\ request.client_id \in DOMAIN CLIENTS
                 /\ \A k \in DOMAIN CLIENTS[request.client_id].redirect_uris :
                        CLIENTS[request.client_id].redirect_uris[k] # request.redirect_uri
        \/ i = 4 /\ request.code_challenge = None
        \/ i = 5 /\ request.code_challenge_method # "S256"
        \/ i = 6 /\ \/ Len(request.scope) = 0
                    \/ \E sc \in Range(request.scope) : sc \notin SUPPORTED_SCOPES}

AuthorizeErrors ==
    <<"unsupported_response_type", "invalid_client", "invalid_redirect_uri",
      "invalid_request", "invalid_request", "invalid_scope">>

\* C21: authorize validates in the order response_type, client exists,
\* redirect_uri registered, code_challenge present, code_challenge_method,
\* scope: for a request that violates several checks the error returned is
\* the one of the first violated check in that order.
C21_FirstViolatedCheck ==
    (/\ last.op = "authorize"
     /\ Cardinality(AuthorizeViolations(last.request)) >= 2)
    => \E i \in AuthorizeViolations(last.request) :
          /\ \A j \in AuthorizeViolations(last.request) : i <= j
          /\ last.response = OAuthException(AuthorizeErrors[i])

\* A request of a registered client with an unregistered redirect_uri, no
\* code_challenge, a wrong method and an unsupported scope was refused for its
\* redirect_uri.
C21_Witness ==
    /\ last.op = "authorize"
    /\ AuthorizeViolations(last.request) = {3, 4, 5, 6}
    /\ last.response = OAuthException("invalid_redirect_uri")

\* C22: issue_token validates grant_type before the client.  A request with
\* an unsupported grant_type is answered unsupported_grant_type, whether or not
\* its client_id is known; a request with a supported grant_type and an
\* unknown client_id is answered invalid_client.  Neither changes a store:
\* the authorization code the request presents is not consumed, and no
\* upstream call is started.
C22_GrantTypeBeforeClient ==
    [][TokenStart
       => /\ (\A g \in {"authorization_code", "refresh_token"} :
                 last'.request.grant_type # g)
             => /\ last'.response = OAuthException("unsupported_grant_type")
                /\ UNCHANGED <<stores, consumed, exchanges, issued, task>>
          /\ (/\ \E g \in {"authorization_code", "refresh_token"} :
                    last'.request.grant_type = g
              /\ last'.request.client_id \notin DOMAIN CLIENTS)
             => /\ last'.response = OAuthException("invalid_client")
                /\ UNCHANGED <<stores, consumed, exchanges, issued, task>>]_vars

\* A request with an unsupported grant_type and an unknown client_id that
\* presents a live authorization code was answered unsupported_grant_type, and
\* the code is still in the store, called back and unconsumed.
C22_Witness ==
    /\ last.op = "token"
    /\ last.phase = "start"
    /\ last.request.grant_type = "password"
    /\ last.request.client_id \notin DOMAIN CLIENTS
    /\ last.request.code \in DOMAIN AUTH_REQUESTS
    /\ AUTH_REQUESTS[last.request.code].code # Absent
    /\ last.request.code \notin consumed
    /\ last.response = OAuthException("unsupported_grant_type")

\* C23: a callback whose state names no AuthorizationRequest is answered
\* invalid_request and changes no store.  A callback whose state names a
\* request past its expires_at is answered invalid_request and removes that
\* entry and no other; the entry never comes back, so a later
\* authorization_code request of a registered client with that code (all
\* fields present) is answered invalid_grant.
C23_CallbackRefused ==
    [][/\ (Quiet /\ last'.op = "callback")
          => /\ last'.state \notin DOMAIN AUTH_REQUESTS
                => /\ last'.response = OAuthException("invalid_request")
                   /\ UNCHANGED stores
             /\ (/\ last'.state \in DOMAIN AUTH_REQUESTS
                 /\ now > AUTH_REQUESTS[last'.state].expires_at)
                => /\ last'.response = OAuthException("invalid_request")
                   /\ DOMAIN AUTH_REQUESTS' = DOMAIN AUTH_REQUESTS \ {last'.state}
                   /\ \A a \in DOMAIN AUTH_REQUESTS' : AUTH_REQUESTS'[a] = AUTH_REQUESTS[a]
                   /\ UNCHANGED <<CLIENTS, SPOTIFY_TOKENS>>
       /\ \A a \in 1..nAuth :
             a \notin DOMAIN AUTH_REQUESTS => a \notin DOMAIN AUTH_REQUESTS'
       /\ (/\ TokenStart
           /\ last'.request.grant_type = "authorization_code"
           /\ last'.request.client_id \in DOMAIN CLIENTS
           /\ CodeFieldsPresent(last'.request)
           /\ last'.request.code \in 1..nAuth
           /\ last'.request.code \notin DOMAIN AUTH_REQUESTS)
          => /\ last'.response = OAuthException("invalid_grant")
             /\ UNCHANGED <<stores, issued, exchanges>>]_vars

\* An expired request was purged by a callback (it was issued, is gone and
\* was never consumed by a token request), and a token request presenting its
\* auth_id as code has been answered invalid_grant.
C23_Witness ==
    /\ last.op = "token"
    /\ last.phase = "start"
    /\ last.request.grant_type = "authorization_code"
    /\ last.request.code \in 1..nAuth
    /\ last.request.code \notin DOMAIN AUTH_REQUESTS
    /\ last.request.code \notin consumed
    /\ last.response = OAuthException("invalid_grant")

\* C24: a successful callback for auth_id redirects to the redirect_uri
\* stored in the AuthorizationRequest, with code equal to auth_id and with
\* state equal to original_state exactly when a non-empty state was supplied
\* at authorize time (no state parameter otherwise); the request is still in
\* the store and now records the upstream code of the callback.
C24_CallbackRedirect ==
    (last.op = "callback" /\ last.response = RedirectResponse)
    => /\ last.state \in DOMAIN AUTH_REQUESTS
       /\ LET auth == AUTH_REQUESTS[last.state] IN
          /\ last.url = auth.redirect_uri
          /\ last.params.code = last.state
          /\ IF auth.original_state = ""
             THEN DOMAIN last.params = {"code"}
             ELSE /\ DOMAIN last.params = {"code", "state"}
                  /\ last.params.state = auth.original_state
          /\ auth.code = last.code

\* Successful callbacks of both kinds: for a request made without a state
\* and for one made with the state "xyz".
C24_Witness ==
    /\ last.op = "callback"
    /\ last.response = RedirectResponse
    /\ AUTH_REQUESTS[last.state].original_state = ""
    /\ \E a \in DOMAIN AUTH_REQUESTS :
          /\ AUTH_REQUESTS[a].original_state = "xyz"
          /\ a \in called_back

\* C25: PKCE at the token endpoint is checked against the client's original
\* challenge only.  An authorization_code request that reaches the PKCE step
\* (registered client, all fields, code in the store, redirect_uri matching)
\* passes it if and only if S256(code_verifier) equals the request's
\* original_code_challenge, and is answered pkce_failed, with no upstream
\* exchange, otherwise; in particular presenting the broker's own
\* code_verifier is answered pkce_failed.  The challenge authorize sends
\* upstream is that of the broker's stored code_verifier, not the client's.
C25_ClientChallengeOnly ==
    [][/\ (/\ CodeStart
           /\ HttpUrlStr(last'.request.redirect_uri)
                = AUTH_REQUESTS[last'.request.code].redirect_uri)
          => LET auth_req == AUTH_REQUESTS[last'.request.code] IN
             /\ last'.response = OAuthException("pkce_failed")
                <=> S256(last'.request.code_verifier) # auth_req.original_code_challenge
             /\ last'.response = OAuthException("pkce_failed")
                => UNCHANGED <<exchanges, issued, SPOTIFY_TOKENS>> /\ task' = task
             /\ last'.request.code_verifier = auth_req.code_verifier
                => last'.response = OAuthException("pkce_failed")
       /\ (Quiet /\ last'.op = "authorize" /\ last'.response = RedirectResponse)
          => LET auth == AUTH_REQUESTS'[last'.params.state] IN
             /\ last'.params.code_challenge = S256(auth.code_verifier)
             /\ last'.params.code_challenge # auth.original_code_challenge
             /\ auth.original_code_challenge = last'.request.code_challenge]_vars

\* A token request presenting the broker's own code_verifier for a called
\* back request, with the right redirect_uri, was answered pkce_failed.
C25_Witness ==
    /\ last.op = "token"
    /\ last.phase = "start"
    /\ last.request.code \in called_back
    /\ last.request.redirect_uri = GoodUri
    /\ last.request.code_verifier = generate_pkce_pair(last.request.code)[1]
    /\ last.response = OAuthException("pkce_failed")

\* The upstream secrets the broker ever holds: upstream authorization codes,
\* upstream access and refresh tokens, and the broker's PKCE verifiers.
UpstreamSecrets ==
    UpstreamCodes
    \cup {generate_pkce_pair(n)[1] : n \in 1..MaxAuth}
    \cup {UpstreamBody(n, TRUE, TRUE).access_token : n \in 1..(MaxTokens + 1)}
    \cup {UpstreamBody(n, TRUE, TRUE).refresh_token : n \in 1..(MaxTokens + 1)}

\* The fields of a token response.
TokenFields == {"access_token", "refresh_token", "token_type", "expires_in", "scope"}

\* C26: no value handed to a client equals an upstream secret.  The callback
\* redirect carries only code, which is the auth_id, and state, which is the
\* client's original_state; a token response has only the fields
\* access_token, refresh_token, token_type, expires_in and scope, its tokens
\* being internal tokens; and every issued internal token carries only
\* token_id (a broker-minted id), iss, iat, exp and typ.
C26_NoUpstreamSecretHandedOut ==
    /\ (last.op = "callback" /\ last.response = RedirectResponse)
       => /\ DOMAIN last.params \subseteq {"code", "state"}
          /\ last.params.code = last.state
          /\ last.params.code \in 1..nAuth
          /\ "state" \in DOMAIN last.params
             => /\ last.params.state = AUTH_REQUESTS[last.state].original_state
                /\ last.params.state \notin UpstreamSecrets
          /\ last.url \notin UpstreamSecrets
    /\ (last.op = "token" /\ last.response = Ok)
       => /\ DOMAIN last.body = TokenFields
          /\ last.body.access_token \in issued
          /\ last.body.refresh_token \in issued
          /\ last.body.token_type = "bearer"
          /\ last.body.expires_in \in {JWT_ACCESS_TTL, NoInt}
          /\ \A i \in DOMAIN last.body.scope : last.body.scope[i] \in SUPPORTED_SCOPES
    /\ \A token \in issued :
          /\ DOMAIN token.claims = {"token_id", "iss", "iat", "exp", "typ"}
          /\ token.claims.token_id \in 1..nTok
          /\ token.claims.iss = JWT_ISSUER
          /\ token.claims.typ \in {"access", "refresh"}
          /\ token.claims.typ \notin UpstreamSecrets
          /\ token.claims.iss \notin UpstreamSecrets

\* A code grant and a refresh of its token have both answered, while the
\* store holds upstream tokens: the second response is being returned.
C26_Witness ==
    /\ last.op = "token"
    /\ last.phase = "refresh_finish"
    /\ last.response = Ok
    /\ called_back # {}
    /\ \E t \in DOMAIN SPOTIFY_TOKENS : SPOTIFY_TOKENS[t].refresh_token \in UpstreamSecrets

\* C27: client records are immutable.  No step of register, authorize,
\* callback or token removes a stored client from the Client Registry or
\* changes a field of its record.
C27_ClientsImmutable ==
    [][\A client_id \in DOMAIN CLIENTS :
          /\ client_id \in DOMAIN CLIENTS'
          /\ CLIENTS'[client_id] = CLIENTS[client_id]]_vars

\* A second client has just been registered, later than the first, after a
\* code of the first client was consumed at the token endpoint.
C27_Witness ==
    /\ last.op = "register"
    /\ last.response = Ok
    /\ Cardinality(DOMAIN CLIENTS) = 2
    /\ \E c \in DOMAIN CLIENTS : CLIENTS[c].client_id_issued_at < now
    /\ consumed # {}

\* C28: the scope a successful authorization_code grant returns is the
\* original_scope authorize validated and stored (the requested scope names,
\* all supported), and it is carried unchanged through rotation: the record
\* a refresh creates has the scope and the owner client_id of the record it
\* replaces, and so of the first record of its chain.  Stored values are
\* never changed in place on the way.
C28_ScopeCarried ==
    [][/\ (Quiet /\ last'.op = "authorize" /\ last'.response = RedirectResponse)
          => LET original_scope == AUTH_REQUESTS'[last'.params.state].original_scope IN
             /\ Range(original_scope) = Range(last'.request.scope)
             /\ Range(original_scope) \subseteq SUPPORTED_SCOPES
       /\ \A a \in DOMAIN AUTH_REQUESTS \cap DOMAIN AUTH_REQUESTS' :
             AUTH_REQUESTS'[a].original_scope = AUTH_REQUESTS[a].original_scope
       /\ \A t \in DOMAIN SPOTIFY_TOKENS \cap DOMAIN SPOTIFY_TOKENS' :
             SPOTIFY_TOKENS'[t] = SPOTIFY_TOKENS[t]
       /\ \A p \in Tasks :
             /\ (task[p].pc = "idle" /\ task'[p].pc = "await_code")
                => task'[p].auth_req.original_scope
                     = AUTH_REQUESTS[task'[p].request.code].original_scope
             /\ (task[p].pc = "idle" /\ task'[p].pc = "await_refresh")
                => task'[p].stored_tokens = SPOTIFY_TOKENS[task'[p].token_id]
             /\ (task[p].pc = "await_code" /\ task'[p].pc = "idle"
                 /\ last'.response = Ok)
                => LET token_id == last'.body.refresh_token.claims.token_id IN
                   /\ last'.body.scope = task[p].auth_req.original_scope
                   /\ SPOTIFY_TOKENS'[token_id].scope = task[p].auth_req.original_scope
                   /\ SPOTIFY_TOKENS'[token_id].client_id = last'.request.client_id
             /\ (task[p].pc = "await_refresh" /\ task'[p].pc = "idle"
                 /\ last'.response = Ok)
                => LET token_id == last'.body.refresh_token.claims.token_id
                       old == SPOTIFY_TOKENS[task[p].token_id]
                   IN
                   /\ last'.body.scope = old.scope
                   /\ SPOTIFY_TOKENS'[token_id].scope = old.scope
                   /\ SPOTIFY_TOKENS'[token_id].client_id = old.client_id]_vars

\* A two-scope request went through the code grant and two refreshes: the
\* record in the store is the third of its chain and holds both scopes.
C28_Witness ==
    /\ last.op = "token"
    /\ last.phase = "refresh_finish"
    /\ last.response = Ok
    /\ Cardinality(rotated) = 2
    /\ Len(last.body.scope) = 2

\* C29: the upstream code of an AuthorizationRequest is populated once.
\* After a callback has recorded an upstream code for an auth_id, no later
\* step changes the recorded code while the request is in the store (so the
\* code a token request finds there is the one of the first callback).
C29_UpstreamCodeSetOnce ==
    [][\A a \in DOMAIN AUTH_REQUESTS \cap DOMAIN AUTH_REQUESTS' :
          AUTH_REQUESTS[a].code # Absent
          => AUTH_REQUESTS'[a].code = AUTH_REQUESTS[a].code]_vars

\* The invocations of issue_token that wait for an upstream answer.
Waiting(tasks) == {p \in Tasks : tasks[p].pc # "idle"}

\* C30: the broker never retries upstream.  A step of issue_token sends at
\* most one upstream POST, and none when it ends with an error; the step that
\* receives the upstream answer, whatever the answer is, ends the invocation
\* and sends nothing more; no other step sends or awaits a POST.  So each
\* invocation makes at most one upstream call, and at most one exchange is
\* ever sent for an authorization code.
C30_NoUpstreamRetry ==
    [][/\ TokenStart
          => /\ Waiting(task) \subseteq Waiting(task')
             /\ Cardinality(Waiting(task')) <= Cardinality(Waiting(task)) + 1
             /\ last'.response # Pending => task' = task
             /\ \A p \in Waiting(task) : task'[p] = task[p]
       /\ (/\ Quiet
           /\ last'.op = "token"
           /\ last'.phase \in {"code_finish", "refresh_finish"})
          => /\ Waiting(task') \subseteq Waiting(task)
             /\ Cardinality(Waiting(task')) = Cardinality(Waiting(task)) - 1
             /\ \A p \in Waiting(task') : task'[p] = task[p]
             /\ UNCHANGED exchanges
       /\ (Quiet /\ last'.op # "token") => task' = task
       /\ \A a \in AuthIds : exchanges'[a] <= 1]_vars

\* An upstream refresh answered with a status other than 200, the invocation
\* ended with server_error and no invocation is waiting any more.
C30_Witness ==
    /\ last.op = "token"
    /\ last.phase = "refresh_finish"
    /\ last.upstream.kind = "status"
    /\ last.upstream.status_code # 200
    /\ last.response = OAuthException("server_error")
    /\ Waiting(task) = {}

\* C31: every started issue_token invocation eventually completes, with a
\* token response or an error, provided the upstream call comes back (answer
\* or timeout) and the scheduler is fair; a concurrent request on the same
\* code or refresh token does not keep it pending.
C31_InvocationCompletes ==
    \A p \in Tasks : (task[p].pc # "idle") ~> (task[p].pc = "idle")

\* Two refreshes of the same token ran concurrently; the first rotated the
\* record and the second has now completed too, with the error of the
\* missing record.
C31_Witness ==
    /\ last.op = "token"
    /\ last.phase = "refresh_finish"
    /\ last.response = Unhandled("KeyError")
    /\ last.request.refresh_token.claims.token_id \in rotated
    /\ \A p \in Tasks : task[p].pc = "idle"

\* C32: an authorization code is bound to the client that started the flow.
\* An authorization_code request whose client_id differs from the client_id
\* stored in the AuthorizationRequest does not go on to the upstream exchange,
\* and the owner of a record a code grant creates is the client_id of the
\* AuthorizationRequest it was created from.
C32_CodeBoundToClient ==
    [][/\ (/\ CodeStart
           /\ last'.request.client_id # AUTH_REQUESTS[last'.request.code].client_id)
          => /\ last'.response.kind = "OAuthException"
             /\ task' = task
       /\ \A p \in Tasks :
             (/\ task[p].pc = "await_code"
              /\ task'[p].pc = "idle"
              /\ last'.response = Ok)
             => SPOTIFY_TOKENS'[last'.body.refresh_token.claims.token_id].client_id
                  = task[p].auth_req.client_id]_vars

\* C33: a failed authorization_code attempt burns the code.  When a token
\* request that found its code in the store fails with invalid_request (the
\* redirect_uri mismatch) or pkce_failed, the AuthorizationRequest is gone
\* from the store after it, and a later request of a registered client with
\* the same code, even with the right redirect_uri and code_verifier, is
\* answered invalid_grant and sends nothing upstream.
C33_FailedAttemptBurnsCode ==
    [][/\ (/\ CodeStart
           /\ \/ last'.response = OAuthException("invalid_request")
              \/ last'.response = OAuthException("pkce_failed"))
          => /\ last'.request.code \notin DOMAIN AUTH_REQUESTS'
             /\ last'.request.code \in consumed'
             /\ UNCHANGED <<exchanges, SPOTIFY_TOKENS, issued>>
       /\ (/\ TokenStart
           /\ last'.request.grant_type = "authorization_code"
           /\ last'.request.client_id \in DOMAIN CLIENTS
           /\ CodeFieldsPresent(last'.request)
           /\ last'.request.code \in consumed
           /\ exchanges[last'.request.code] = 0)
          => /\ last'.response = OAuthException("invalid_grant")
             /\ UNCHANGED <<exchanges, SPOTIFY_TOKENS, issued>>
             /\ task' = task]_vars

\* A request with the right redirect_uri and verifier for a called-back code
\* was answered invalid_grant, the code having been burnt by an attempt that
\* never passed the PKCE step.
C33_Witness ==
    /\ last.op = "token"
    /\ last.phase = "start"
    /\ last.request.redirect_uri = GoodUri
    /\ last.request.code_verifier = "v1"
    /\ last.request.code \in called_back
    /\ last.request.code \in consumed
    /\ last.request.code \notin pkce_ok
    /\ last.response = OAuthException("invalid_grant")

C35_FailedAuthorize ==
    [][/\ (/\ Quiet
           /\ last'.op = "authorize"
           /\ AuthorizeViolations(last'.request) # {})
          => /\ last'.response.kind = "OAuthException"
             /\ UNCHANGED <<stores, nAuth>>
       /\ \A a \in DOMAIN AUTH_REQUESTS' \ DOMAIN AUTH_REQUESTS :
             /\ last'.op = "authorize"
             /\ last'.response = RedirectResponse
             /\ AuthorizeViolations(last'.request) = {}
             /\ last'.params.state = a
             /\ AUTH_REQUESTS'[a].code_verifier # Absent
             /\ S256(AUTH_REQUESTS'[a].code_verifier) = last'.params.code_challenge
             /\ UNCHANGED <<CLIENTS, SPOTIFY_TOKENS>>]_vars

\* With a request of the client already in the store, a further authorize
\* call of that client was refused for its scope.
C35_Witness ==
    /\ last.op = "authorize"
    /\ last.response = OAuthException("invalid_scope")
    /\ last.request.client_id \in DOMAIN CLIENTS
    /\ \E a \in DOMAIN AUTH_REQUESTS :
          AUTH_REQUESTS[a].client_id = last.request.client_id

\* C36: a refresh_token grant whose upstream refresh answers with a status
\* other than 200 is answered server_error and leaves the Token Record Store
\* unchanged.  If the old record was live it still is: its unexpired access
\* tokens still resolve at the resource-call verifier, and the same refresh
\* token still verifies and names the record, so it can be presented again.
C36_FailedRefreshKeepsRecord ==
    [][(/\ Quiet
        /\ last'.op = "token"
        /\ last'.phase = "refresh_finish"
        /\ last'.upstream.kind = "status"
        /\ last'.upstream.status_code # 200)
       => LET refresh_token == last'.request.refresh_token
              token_id == refresh_token.claims.token_id
          IN
          /\ last'.response = OAuthException("server_error")
          /\ UNCHANGED <<SPOTIFY_TOKENS, issued, origin, rotated>>
          /\ token_id \in DOMAIN SPOTIFY_TOKENS
             => /\ token_id \in DOMAIN SPOTIFY_TOKENS'
                /\ verify_refresh_token(refresh_token).ok
                /\ SPOTIFY_TOKENS'[token_id].client_id = last'.request.client_id
                /\ \A token \in issued :
                      (/\ token.claims.token_id = token_id
                       /\ token.claims.typ = "access"
                       /\ token.claims.exp > now)
                      => /\ verify_token(token) # NoRecord
                         /\ verify_token(token).client_id
                              = SPOTIFY_TOKENS'[token_id].client_id]_vars

\* An upstream refresh answered with a status other than 200 and the old
\* record is still in the store, with an unexpired access token issued for
\* it.
C36_Witness ==
    /\ last.op = "token"
    /\ last.phase = "refresh_finish"
    /\ last.upstream.kind = "status"
    /\ last.upstream.status_code # 200
    /\ last.request.refresh_token.claims.token_id \in DOMAIN SPOTIFY_TOKENS
    /\ \E token \in issued :
          /\ token.claims.token_id = last.request.refresh_token.claims.token_id
          /\ token.claims.typ = "access"
          /\ token.claims.exp > now

\* C37: TokenRecords are created only by token grants that completed
\* successfully.  A key enters the Token Record Store only in the step in
\* which an authorization_code or refresh_token grant returns its token
\* response, as the token_id of the tokens returned, and it was never a key
\* before (each key is minted by exactly one grant); a stored record is never
\* changed in place; its owner is a registered client; and register,
\* authorize and callback never add, change or remove a record.
C37_RecordsFromGrantsOnly ==
    [][/\ \A token_id \in DOMAIN SPOTIFY_TOKENS' \ DOMAIN SPOTIFY_TOKENS :
             /\ last'.op = "token"
             /\ last'.phase \in {"code_finish", "refresh_finish"}
             /\ last'.response = Ok
             /\ last'.body.access_token.claims.token_id = token_id
             /\ last'.body.refresh_token.claims.token_id = token_id
             /\ token_id \notin DOMAIN origin
             /\ SPOTIFY_TOKENS'[token_id].client_id \in DOMAIN CLIENTS'
       /\ (last'.op = "token" /\ last'.response = Ok /\ Quiet)
          => /\ last'.body.refresh_token.claims.token_id \notin DOMAIN SPOTIFY_TOKENS
             /\ last'.body.refresh_token.claims.token_id \notin DOMAIN origin
             /\ last'.body.refresh_token.claims.token_id \in DOMAIN SPOTIFY_TOKENS'
       /\ \A token_id \in DOMAIN SPOTIFY_TOKENS \cap DOMAIN SPOTIFY_TOKENS' :
             SPOTIFY_TOKENS'[token_id] = SPOTIFY_TOKENS[token_id]
       /\ \A token_id \in DOMAIN SPOTIFY_TOKENS :
             SPOTIFY_TOKENS[token_id].client_id \in DOMAIN CLIENTS
       /\ (Quiet /\ last'.op \in {"register", "authorize", "callback"})
          => UNCHANGED SPOTIFY_TOKENS]_vars

\* With records of a code grant and of a refresh in the store, a callback
\* has just been handled.
C37_Witness ==
    /\ last.op = "callback"
    /\ \E t \in DOMAIN SPOTIFY_TOKENS : origin[t].grant = "authorization_code"
    /\ \E t \in DOMAIN SPOTIFY_TOKENS : origin[t].grant = "refresh_token"

\* C38: the two resource-call verification paths agree.  In every state and
\* for every token, the with_spotify_token wrapper injects an upstream access
\* token exactly when JWTTokenVerifier.verify_token returns an AccessToken for
\* that token, and what it injects is the upstream access_token of the record
\* verify_token resolved (the record under the token's token_id, whose
\* client_id the AccessToken carries).
C38_VerifiersAgree ==
    /\ last.op = "with_spotify_token"
       => /\ last.result.ok <=> verify_token(last.token) # NoRecord
          /\ last.result.ok
             => LET record == SPOTIFY_TOKENS[last.token.claims.token_id] IN
                /\ last.result.headers.Authorization = record.access_token
                /\ verify_token(last.token).client_id = record.client_id
                /\ verify_token(last.token).token = last.token
    /\ last.op = "verify_token"
       => /\ last.result # NoRecord <=> with_spotify_token(last.token).ok
          /\ last.result # NoRecord
             => with_spotify_token(last.token).headers.Authorization
                  = SPOTIFY_TOKENS[last.token.claims.token_id].access_token

\* The wrapper injected the upstream access token of a record created by a
\* refresh, while a token of the rotated record is still among those a
\* caller can present.
C38_Witness ==
    /\ last.op = "with_spotify_token"
    /\ last.result.ok
    /\ origin[last.token.claims.token_id].grant = "refresh_token"
    /\ \E token \in issued : token.claims.token_id \in rotated

====
